---- MODULE Spec2Model ----
(***************************************************************************)
(* geng-egui: the bridge between the egui immediate-mode UI library and    *)
(* the geng/ugli graphics backend.                                         *)
(*                                                                         *)
(*   src/src/lib.rs      EguiGeng: frame lifecycle and input translation   *)
(*   src/src/painter.rs  Painter: texture cache and primitive painter      *)
(*                                                                         *)
(* A panic (todo!(), assert_eq!) unwinds out of the running call: the      *)
(* state keeps what the call had written so far and the process halts.     *)
(* Positions are f32 in the source; here they are integers counting        *)
(* 1/Scale of a pixel, so that a fractional position exists.               *)
(***************************************************************************)
EXTENDS Integers, Sequences, FiniteSets, TLC

VARIABLES
    egui_input,        \* EguiGeng.egui_input: events, screen_rect, modifiers
    shapes,            \* EguiGeng.shapes: Option<Vec<ClippedShape>>
    textures_delta,    \* EguiGeng.textures_delta: set and free lists
    screen_height,     \* EguiGeng.screen_height
    pointer_position,  \* EguiGeng.pointer_position
    textures,          \* Painter.textures: HashMap<TextureId, Texture>
    egui_ctx,          \* EguiGeng.egui_ctx, as far as the bridge drives it
    halted,            \* a panic has unwound out of a call
    last,              \* observation: the most recent call and what it did
    history            \* observation: what has been painted and applied so far,
                       \* and the heights pointer events were translated with

vars == <<egui_input, shapes, textures_delta, screen_height, pointer_position,
          textures, egui_ctx, halted, last, history>>

(***************************************************************************)
(* Bounds of the model.                                                    *)
(***************************************************************************)
MaxFrames == 2      \* end_frame calls in one behaviour
MaxEvents == 2      \* events queued between two begin_frame calls
MaxPrims == 2       \* primitives in one shape list
MaxSet == 1         \* create/update instructions emitted by one end_frame
MaxFree == 1        \* free instructions emitted by one end_frame
MaxInstr == 2       \* creates/updates handed to one paint_and_update_textures
Scale == 2          \* position units per pixel

None == <<>>                  \* Option::None; Some(x) is the one-element <<x>>

Some(x) == <<x>>

(***************************************************************************)
(* Sequences.                                                              *)
(***************************************************************************)
SeqsUpTo(S, n) == UNION {[1..k -> S] : k \in 0..n}

Min(a, b) == IF a <= b THEN a ELSE b

Max(a, b) == IF a >= b THEN a ELSE b

(***************************************************************************)
(* Texture identifiers, images and textures.                               *)
(*   TextureId: <<"Managed", n>> or <<"User", n>>.                       *)
(*   ImageData: [kind, size, pixels], pixels row-major with row 0 on top;  *)
(*     a Color pixel is <<r, g, b, a>> in u8, a Font pixel an f32 alpha.   *)
(*   ImageDelta: [image, options, pos], pos an Option<[x, y]>.             *)
(*   Texture: [size, filter, texels], texels by <<x, y>> with row 0 at the *)
(*     bottom. An f32 channel is the fraction <<numerator, denominator>>.  *)
(***************************************************************************)
Managed(n) == <<"Managed", n>>

User(n) == <<"User", n>>

U8ToF32(v) == <<v, 255>>

ColorTexel(color) ==
    <<U8ToF32(color[1]), U8ToF32(color[2]), U8ToF32(color[3]), U8ToF32(color[4])>>

FontTexel(alpha) == <<<<1, 1>>, <<1, 1>>, <<1, 1>>, alpha>>

ugli_filter(magnification) ==
    CASE magnification = "Nearest" -> "Nearest"
      [] magnification = "Linear" -> "Linear"

SizeMatches(image) == image.size[1] * image.size[2] = Len(image.pixels)

LogError(msg) == [level |-> "error", msg |-> msg]

LogWarn(msg) == [level |-> "warn", msg |-> msg]

\* HashMap::insert: the entry for key is created or replaced.
Insert(map, key, value) ==
    [k \in (DOMAIN map) \cup {key} |-> IF k = key THEN value ELSE map[k]]

\* HashMap::remove: the entry for key is dropped when there is one.
Remove(map, key) == [k \in (DOMAIN map) \ {key} |-> map[k]]

\* A read of the source pixel without the row inversion.
FlippedPixelSameRow(image, x, y) == image.pixels[x + y * image.size[1] + 1]

\* Texture::new_with on the source pixel Geng's texel <<x, y>> is read from.
FlippedPixel(image, x, y) ==
    image.pixels[x + (image.size[2] - 1 - y) * image.size[1] + 1]

NewTexture(image, filter) ==
    [size |-> image.size,
     filter |-> filter,
     texels |-> [p \in (0..(image.size[1] - 1)) \X (0..(image.size[2] - 1)) |->
                    IF image.kind = "Color"
                    THEN ColorTexel(FlippedPixel(image, p[1], p[2]))
                    ELSE FontTexel(FlippedPixel(image, p[1], p[2]))]]

\* A partial update that creates the texture it does not find.
PartialUpdateCreates(texs, tex_id, delta) ==
    IF tex_id \in DOMAIN texs
    THEN [textures |-> [texs EXCEPT ![tex_id].filter =
                                       ugli_filter(delta.options.magnification)],
          log |-> <<>>,
          panic |-> IF SizeMatches(delta.image) THEN "todo" ELSE "assert"]
    ELSE [textures |-> Insert(texs, tex_id,
                              NewTexture(delta.image,
                                         ugli_filter(delta.options.magnification))),
          log |-> <<LogError("Failed to find egui texture")>>,
          panic |-> "none"]

\* set_texture, delta.pos = Some: the partial update of an existing texture.
PartialUpdate(texs, tex_id, delta) ==
    IF tex_id \in DOMAIN texs
    THEN [textures |-> [texs EXCEPT ![tex_id].filter =
                                       ugli_filter(delta.options.magnification)],
          log |-> <<>>,
          panic |-> IF SizeMatches(delta.image) THEN "todo" ELSE "assert"]
    ELSE [textures |-> texs,
          log |-> <<LogError("Failed to find egui texture")>>,
          panic |-> "none"]

\* A full update that keeps the entry the identifier already has.
FullUpdateKeepsExisting(texs, tex_id, delta) ==
    IF ~SizeMatches(delta.image)
    THEN [textures |-> texs, log |-> <<>>, panic |-> "assert"]
    ELSE [textures |-> IF tex_id \in DOMAIN texs THEN texs
                       ELSE Insert(texs, tex_id,
                                   NewTexture(delta.image,
                                              ugli_filter(delta.options.magnification))),
          log |-> <<>>,
          panic |-> "none"]

\* set_texture, delta.pos = None: a new texture or a full update.
FullUpdate(texs, tex_id, delta) ==
    IF ~SizeMatches(delta.image)
    THEN [textures |-> texs, log |-> <<>>, panic |-> "assert"]
    ELSE [textures |-> Insert(texs, tex_id,
                              NewTexture(delta.image,
                                         ugli_filter(delta.options.magnification))),
          log |-> <<>>,
          panic |-> "none"]

set_texture(texs, tex_id, delta) ==
    IF delta.pos # None
    THEN PartialUpdate(texs, tex_id, delta)
    ELSE FullUpdate(texs, tex_id, delta)

\* A free that leaves the entry in the cache.
free_textureKeeps(texs, tex_id) == texs

free_texture(texs, tex_id) == Remove(texs, tex_id)

(***************************************************************************)
(* Coordinates. A position is <<x, y>> in units of 1/Scale pixel.          *)
(***************************************************************************)
\* usize as f32
ToF32(n) == n * Scale

\* f32 as usize: truncates toward zero and saturates below at 0
ToUsize(v) == IF v <= 0 THEN 0 ELSE v \div Scale

pos_to_vec(pos, height) == <<pos[1], height - pos[2]>>

Aabb2_from_corners(p1, p2) ==
    [min |-> <<Min(p1[1], p2[1]), Min(p1[2], p2[2])>>,
     max |-> <<Max(p1[1], p2[1]), Max(p1[2], p2[2])>>]

textured_vertex(egui_vertex, height) ==
    [a_pos |-> pos_to_vec(egui_vertex.pos, height),
     a_vt |-> pos_to_vec(egui_vertex.uv, 1 * Scale),
     a_color |-> ColorTexel(egui_vertex.color)]

(***************************************************************************)
(* The primitive painter.                                                  *)
(*   ClippedPrimitive: [clip_rect, type, mesh, callback]; type is "Mesh"   *)
(*     (mesh = [texture_id, indices, vertices]) or "Callback" (callback =  *)
(*     [rect, payload], payload.type "CallbackFn" when it downcasts).      *)
(* Each operator returns what the call did: the backend call it issued,    *)
(* the diagnostics it logged and the panic that ended it, if any.          *)
(***************************************************************************)
clip_aabb_of(framebuffer, clip_rect) ==
    LET height == ToF32(framebuffer[2])
        aabb == Aabb2_from_corners(pos_to_vec(clip_rect.min, height),
                                   pos_to_vec(clip_rect.max, height))
    IN [min |-> <<ToUsize(aabb.min[1]), ToUsize(aabb.min[2])>>,
        max |-> <<ToUsize(aabb.max[1]), ToUsize(aabb.max[2])>>]

mesh_vertices(framebuffer, clip_aabb, mesh) ==
    LET height == ToF32(framebuffer[2])
        vertex_shift == <<ToF32(clip_aabb.min[1]), ToF32(clip_aabb.min[2])>>
    IN [k \in 1..Len(mesh.indices) |->
          LET vertex == textured_vertex(mesh.vertices[mesh.indices[k] + 1], height)
          IN [vertex EXCEPT !.a_pos = <<vertex.a_pos[1] - vertex_shift[1],
                                        vertex.a_pos[2] - vertex_shift[2]>>]]

\* The texture lookup of paint_job: found, logged and skipped, or todo!().
mesh_texture(texs, texture_id) ==
    IF texture_id[1] = "Managed"
    THEN IF texture_id \in DOMAIN texs
         THEN [texture |-> Some(texs[texture_id]), log |-> <<>>, panic |-> "none"]
         ELSE [texture |-> None,
               log |-> <<LogError("egui texture not found")>>,
               panic |-> "none"]
    ELSE [texture |-> None, log |-> <<>>, panic |-> "todo"]

paint_job(texs, framebuffer, clip_rect, mesh) ==
    LET clip_aabb == clip_aabb_of(framebuffer, clip_rect)
        found == mesh_texture(texs, mesh.texture_id)
    IN IF found.texture = None
       THEN [call |-> None, log |-> found.log, panic |-> found.panic]
       ELSE [call |-> Some([kind |-> "draw",
                            texture_id |-> mesh.texture_id,
                            u_texture |-> found.texture[1],
                            vertices |-> mesh_vertices(framebuffer, clip_aabb, mesh),
                            viewport |-> clip_aabb]),
             log |-> <<>>,
             panic |-> "none"]

\* A callback invoked without the downcast to CallbackFn.
paint_callbackInvokesAny(framebuffer, clip_rect, callback) ==
    [call |-> Some([kind |-> "callback",
                    f |-> callback.payload.f,
                    viewport |-> callback.rect,
                    clip_rect |-> clip_rect,
                    screen_size_px |-> framebuffer]),
     log |-> <<>>,
     panic |-> "none"]

paint_callback(framebuffer, clip_rect, callback) ==
    IF callback.payload.type = "CallbackFn"
    THEN [call |-> Some([kind |-> "callback",
                         f |-> callback.payload.f,
                         viewport |-> callback.rect,
                         clip_rect |-> clip_rect,
                         screen_size_px |-> framebuffer]),
          log |-> <<>>,
          panic |-> "none"]
    ELSE [call |-> None,
          log |-> <<LogWarn("Unsupported render callback")>>,
          panic |-> "none"]

paint_one(texs, framebuffer, clipped) ==
    IF clipped.type = "Mesh"
    THEN paint_job(texs, framebuffer, clipped.clip_rect, clipped.mesh[1])
    ELSE paint_callback(framebuffer, clipped.clip_rect, clipped.callback[1])

\* One step of a draw: phase "set", "paint" or "free", the index of the
\* instruction or primitive in its list, how it ended ("ok", "skipped" with
\* a diagnostic, "panic") and the backend call it issued.
Step(phase, index, log, panic, call) ==
    [phase |-> phase,
     index |-> index,
     outcome |-> IF panic # "none" THEN "panic"
                 ELSE IF log # <<>> THEN "skipped" ELSE "ok",
     call |-> call]

\* A draw in progress: the cache, the steps so far, the log, the panic.
RECURSIVE paint_from(_, _, _, _)
paint_from(st, framebuffer, primitives, i) ==
    IF i > Len(primitives) \/ st.panic # "none"
    THEN st
    ELSE LET r == paint_one(st.textures, framebuffer, primitives[i])
         IN paint_from([textures |-> st.textures,
                        steps |-> Append(st.steps,
                                         Step("paint", i, r.log, r.panic, r.call)),
                        log |-> st.log \o r.log,
                        panic |-> r.panic],
                       framebuffer, primitives, i + 1)

paint(st, framebuffer, primitives) == paint_from(st, framebuffer, primitives, 1)

RECURSIVE set_from(_, _, _)
set_from(st, set, i) ==
    IF i > Len(set) \/ st.panic # "none"
    THEN st
    ELSE LET r == set_texture(st.textures, set[i].id, set[i].delta)
         IN set_from([textures |-> r.textures,
                      steps |-> Append(st.steps,
                                       Step("set", i, r.log, r.panic, None)),
                      log |-> st.log \o r.log,
                      panic |-> r.panic],
                     set, i + 1)

RECURSIVE free_from(_, _, _)
free_from(st, free, i) ==
    IF i > Len(free) \/ st.panic # "none"
    THEN st
    ELSE free_from([st EXCEPT !.textures = free_texture(st.textures, free[i].id),
                              !.steps = Append(st.steps,
                                               Step("free", i, <<>>, "none", None))],
                   free, i + 1)

\* The frees applied before the primitives are painted.
paint_and_update_texturesFreeFirst(texs, framebuffer, primitives, delta) ==
    LET start == [textures |-> texs, steps |-> <<>>, log |-> <<>>, panic |-> "none"]
    IN paint(free_from(set_from(start, delta.set, 1), delta.free, 1),
             framebuffer, primitives)

paint_and_update_textures(texs, framebuffer, primitives, delta) ==
    LET start == [textures |-> texs, steps |-> <<>>, log |-> <<>>, panic |-> "none"]
    IN free_from(paint(set_from(start, delta.set, 1), framebuffer, primitives),
                 delta.free, 1)

(***************************************************************************)
(* Input translation (lib.rs).                                             *)
(*   geng::Event: [type, key, button, position, delta]; keys and buttons   *)
(*   are named by their variant. keys is the set of keys the window        *)
(*   reports as pressed.                                                   *)
(***************************************************************************)
KeyTable ==
    "Digit0" :> "Num0" @@ "Numpad0" :> "Num0" @@ "Digit1" :> "Num1" @@ "Numpad1" :> "Num1" @@
    "Digit2" :> "Num2" @@ "Numpad2" :> "Num2" @@ "Digit3" :> "Num3" @@ "Numpad3" :> "Num3" @@
    "Digit4" :> "Num4" @@ "Numpad4" :> "Num4" @@ "Digit5" :> "Num5" @@ "Numpad5" :> "Num5" @@
    "Digit6" :> "Num6" @@ "Numpad6" :> "Num6" @@ "Digit7" :> "Num7" @@ "Numpad7" :> "Num7" @@
    "Digit8" :> "Num8" @@ "Numpad8" :> "Num8" @@ "Digit9" :> "Num9" @@ "Numpad9" :> "Num9" @@
    "A" :> "A" @@ "B" :> "B" @@ "C" :> "C" @@ "D" :> "D" @@
    "E" :> "E" @@ "F" :> "F" @@ "G" :> "G" @@ "H" :> "H" @@
    "I" :> "I" @@ "J" :> "J" @@ "K" :> "K" @@ "L" :> "L" @@
    "M" :> "M" @@ "N" :> "N" @@ "O" :> "O" @@ "P" :> "P" @@
    "Q" :> "Q" @@ "R" :> "R" @@ "S" :> "S" @@ "T" :> "T" @@
    "U" :> "U" @@ "V" :> "V" @@ "W" :> "W" @@ "X" :> "X" @@
    "Y" :> "Y" @@ "Z" :> "Z" @@ "Escape" :> "Escape" @@ "Space" :> "Space" @@
    "Enter" :> "Enter" @@ "Backspace" :> "Backspace" @@ "ArrowLeft" :> "ArrowLeft" @@ "ArrowRight" :> "ArrowRight" @@
    "ArrowUp" :> "ArrowUp" @@ "ArrowDown" :> "ArrowDown" @@ "PageUp" :> "PageUp" @@ "PageDown" :> "PageDown"

CharTable ==
    "A" :> "a" @@ "B" :> "b" @@ "C" :> "c" @@ "D" :> "d" @@ "E" :> "e" @@ "F" :> "f" @@
    "G" :> "g" @@ "H" :> "h" @@ "I" :> "i" @@ "J" :> "j" @@ "K" :> "k" @@ "L" :> "l" @@
    "M" :> "m" @@ "N" :> "n" @@ "O" :> "o" @@ "P" :> "p" @@ "Q" :> "q" @@ "R" :> "r" @@
    "S" :> "s" @@ "T" :> "t" @@ "U" :> "u" @@ "V" :> "v" @@ "W" :> "w" @@ "X" :> "x" @@
    "Y" :> "y" @@ "Z" :> "z" @@ "Num0" :> "0" @@ "Num1" :> "1" @@ "Num2" :> "2" @@ "Num3" :> "3" @@
    "Num4" :> "4" @@ "Num5" :> "5" @@ "Num6" :> "6" @@ "Num7" :> "7" @@ "Num8" :> "8" @@ "Num9" :> "9"

UpperTable ==
    "a" :> "A" @@ "b" :> "B" @@ "c" :> "C" @@ "d" :> "D" @@ "e" :> "E" @@ "f" :> "F" @@
    "g" :> "G" @@ "h" :> "H" @@ "i" :> "I" @@ "j" :> "J" @@ "k" :> "K" @@ "l" :> "L" @@
    "m" :> "M" @@ "n" :> "N" @@ "o" :> "O" @@ "p" :> "P" @@ "q" :> "Q" @@ "r" :> "R" @@
    "s" :> "S" @@ "t" :> "T" @@ "u" :> "U" @@ "v" :> "V" @@ "w" :> "W" @@ "x" :> "X" @@
    "y" :> "Y" @@ "z" :> "Z"

egui_key(geng_key) ==
    IF geng_key \in DOMAIN KeyTable THEN Some(KeyTable[geng_key]) ELSE None

key_char(key) == IF key \in DOMAIN CharTable THEN Some(CharTable[key]) ELSE None

\* An upper-casing that leaves the character as it is.
to_uppercaseKeeps(symbol) == symbol

\* char::to_uppercase().next().unwrap()
to_uppercase(symbol) ==
    IF symbol \in DOMAIN UpperTable THEN UpperTable[symbol] ELSE symbol

\* A mapping that reports every button as the primary one.
egui_buttonAllPrimary(geng_button) == "Primary"

egui_button(geng_button) ==
    CASE geng_button = "Left" -> "Primary"
      [] geng_button = "Middle" -> "Middle"
      [] geng_button = "Right" -> "Secondary"

get_modifiers(keys) ==
    [alt |-> "AltLeft" \in keys,
     ctrl |-> "ControlLeft" \in keys,
     shift |-> "ShiftLeft" \in keys]

\* position is vec2<f64> in pixels; `as f32` keeps it, in position units
mouse_to_pos(height, mouse) == <<mouse[1], height - mouse[2]>>

KeyEvent(key, modifiers, pressed) ==
    [type |-> "Key", key |-> key, modifiers |-> modifiers, pressed |-> pressed,
     repeat |-> FALSE]

PointerButtonEvent(pos, button, pressed, modifiers) ==
    [type |-> "PointerButton", pos |-> pos, button |-> button,
     pressed |-> pressed, modifiers |-> modifiers]

\* The events handle_event pushes for one host event, and the pointer
\* position it leaves.
translate_event(event, keys, height, pointer) ==
    CASE event.type = "Wheel" ->
           [events |-> IF "ShiftLeft" \in keys
                       THEN <<[type |-> "Scroll", delta |-> <<event.delta, 0>>]>>
                       ELSE <<[type |-> "Scroll", delta |-> <<0, event.delta>>]>>,
            pointer |-> pointer]
      [] event.type = "KeyPress" ->
           [events |->
              LET key == egui_key(event.key)
                  modifiers == get_modifiers(keys)
              IN IF key = None THEN <<>>
                 ELSE <<KeyEvent(key[1], modifiers, TRUE)>> \o
                      (LET symbol == key_char(key[1])
                       IN IF symbol = None THEN <<>>
                          ELSE <<[type |-> "Text",
                                  text |-> IF modifiers.shift
                                           THEN to_uppercase(symbol[1])
                                           ELSE symbol[1]]>>),
            pointer |-> pointer]
      [] event.type = "KeyRelease" ->
           [events |->
              LET key == egui_key(event.key)
              IN IF key = None THEN <<>>
                 ELSE <<KeyEvent(key[1], get_modifiers(keys), FALSE)>>,
            pointer |-> pointer]
      [] event.type = "MousePress" ->
           [events |-> <<PointerButtonEvent(mouse_to_pos(height, pointer),
                                            egui_button(event.button), TRUE,
                                            get_modifiers(keys))>>,
            pointer |-> pointer]
      [] event.type = "CursorMove" ->
           [events |-> <<[type |-> "PointerMoved",
                          pos |-> mouse_to_pos(height, event.position)]>>,
            pointer |-> event.position]
      [] event.type = "MouseRelease" ->
           [events |-> <<PointerButtonEvent(mouse_to_pos(height, pointer),
                                            egui_button(event.button), FALSE,
                                            get_modifiers(keys))>>,
            pointer |-> pointer]
      [] OTHER -> [events |-> <<>>, pointer |-> pointer]

(***************************************************************************)
(* The UI library: what the bridge hands it and takes from it.             *)
(*   egui_ctx: [frame_open, frame_nr]; last.input is the RawInput a        *)
(*   begin_frame hands it. An instruction of a TexturesDelta is [id, delta,*)
(*   src] (set) or [id, src] (free); src = <<frame, kind, index>> names    *)
(*   the instruction: the frame that emitted it and its place there.       *)
(***************************************************************************)
\* A take that hands over a copy and leaves the input as it was.
RawInput_takeCopies(input) == [value |-> input, left |-> input]

\* RawInput::take: the events and the screen rectangle move out, the
\* modifiers are copied.
RawInput_take(input) ==
    [value |-> input,
     left |-> [events |-> <<>>, screen_rect |-> None, modifiers |-> input.modifiers]]

\* A take that leaves the value behind, as a clone would.
Option_takeKeeps(opt) == [value |-> opt, left |-> opt]

\* Option::take
Option_take(opt) == [value |-> opt, left |-> None]

\* TexturesDelta::append
TexturesDelta_append(delta, newer) ==
    [set |-> delta.set \o newer.set, free |-> delta.free \o newer.free]

\* TexturesDelta::clear
TexturesDelta_clear(delta) == [set |-> <<>>, free |-> <<>>]

\* Context::tessellate: one clipped primitive per clipped shape, in order.
tessellate(clipped_shapes) ==
    [k \in 1..Len(clipped_shapes) |->
        [clip_rect |-> clipped_shapes[k].clip_rect,
         type |-> clipped_shapes[k].shape.type,
         mesh |-> IF clipped_shapes[k].shape.type = "Mesh"
                  THEN Some(clipped_shapes[k].shape.mesh) ELSE None,
         callback |-> IF clipped_shapes[k].shape.type = "Callback"
                      THEN Some(clipped_shapes[k].shape.callback) ELSE None]]

\* The output of Context::end_frame for frame number frame.
FullOutput(frame, output) ==
    [shapes |-> [frame |-> frame, list |-> output.shapes],
     textures_delta |->
        [set |-> [k \in 1..Len(output.set) |->
                     [id |-> output.set[k].id, delta |-> output.set[k].delta,
                      src |-> <<frame, "set", k>>]],
         free |-> [k \in 1..Len(output.free) |->
                     [id |-> output.free[k], src |-> <<frame, "free", k>>]]]]

(***************************************************************************)
(* EguiGeng (lib.rs).                                                      *)
(***************************************************************************)
\* What a call did, as `last` records it: the call and its arguments, the
\* diagnostics it logged, the steps of its draw, the panic that ended it
\* and the RawInput it handed to the UI library.
Called(op, args, log, steps, panic, input) ==
    [op |-> op, args |-> args, log |-> log, steps |-> steps, panic |-> panic,
     input |-> input]

Init ==
    /\ egui_input = [events |-> <<>>, screen_rect |-> None,
                     modifiers |-> get_modifiers({})]
    /\ shapes = None
    /\ textures_delta = [set |-> <<>>, free |-> <<>>]
    /\ screen_height = 1 * Scale
    /\ pointer_position = <<0, 0>>
    /\ textures = <<>>
    /\ egui_ctx = [frame_open |-> FALSE, frame_nr |-> 0]
    /\ halted = FALSE
    /\ last = Called("new", <<>>, <<>>, <<>>, "none", None)
    /\ history = [painted |-> <<>>, emitted |-> <<>>, applied |-> <<>>,
                  pending_heights |-> {}, frame_heights |-> {},
                  heights |-> <<>>, paint_height |-> <<>>]

begin_frame(keys) ==
    /\ ~halted
    /\ LET gathered == [egui_input EXCEPT !.modifiers = get_modifiers(keys)]
           taken == RawInput_take(gathered)
       IN /\ egui_input' = taken.left
          /\ last' = Called("begin_frame", [keys |-> keys], <<>>, <<>>, "none",
                            Some(taken.value))
    /\ egui_ctx' = [egui_ctx EXCEPT !.frame_open = TRUE]
    /\ history' = [history EXCEPT
                     !.frame_heights = @ \cup history.pending_heights,
                     !.pending_heights = {}]
    /\ UNCHANGED <<shapes, textures_delta, screen_height, pointer_position,
                   textures, halted>>

\* A store that keeps a shape list that is still pending.
store_shapesKeepsPending(pending, new) == IF pending # None THEN pending ELSE Some(new)

\* self.shapes = Some(output.shapes)
store_shapes(pending, new) == Some(new)

\* The sources of the instructions of a TexturesDelta, creates/updates first.
Sources(delta) ==
    [k \in 1..Len(delta.set) |-> delta.set[k].src] \o
    [k \in 1..Len(delta.free) |-> delta.free[k].src]

end_frame(ui) ==
    /\ ~halted
    /\ egui_ctx.frame_nr < MaxFrames
    /\ LET output == FullOutput(egui_ctx.frame_nr + 1, ui)
       IN /\ shapes' = store_shapes(shapes, output.shapes)
          /\ textures_delta' = TexturesDelta_append(textures_delta,
                                                    output.textures_delta)
          /\ history' = [history EXCEPT
                           !.painted = Append(@, 0),
                           !.emitted = @ \o Sources(output.textures_delta),
                           !.heights = Append(@, history.frame_heights),
                           !.frame_heights = {},
                           !.paint_height = Append(@, None)]
    /\ egui_ctx' = [egui_ctx EXCEPT !.frame_open = FALSE, !.frame_nr = @ + 1]
    /\ last' = Called("end_frame", ui,
                      IF shapes # None
                      THEN <<LogError("Egui contents have not been drawn")>>
                      ELSE <<>>,
                      <<>>, "none", None)
    /\ UNCHANGED <<egui_input, screen_height, pointer_position, textures, halted>>

\* The instructions the steps of a draw handed to the cache, in order.
AppliedBy(steps, delta) ==
    LET IsInstruction(step) == step.phase \in {"set", "free"}
        done == SelectSeq(steps, IsInstruction)
    IN [k \in 1..Len(done) |->
          IF done[k].phase = "set"
          THEN delta.set[done[k].index].src
          ELSE delta.free[done[k].index].src]

\* The size with its axes exchanged.
framebuffer_sizeSwapped(framebuffer) == <<ToF32(framebuffer[2]), ToF32(framebuffer[1])>>

\* framebuffer.size().map(|x| x as f32)
framebuffer_size(framebuffer) == <<ToF32(framebuffer[1]), ToF32(framebuffer[2])>>

\* A clear that has moved out of the `if let`.
delta_after_drawAlways(pending, panic, delta) == TexturesDelta_clear(delta)

\* textures_delta when draw is left: cleared once the pending shape list
\* has been painted, kept by a draw that had none, and kept by a panic,
\* which unwinds before the clear.
delta_after_draw(pending, panic, delta) ==
    IF pending # None /\ panic = "none" THEN TexturesDelta_clear(delta) ELSE delta

\* The painter run on an empty list when no shape list is pending.
paint_pendingOrEmpty(pending, texs, framebuffer, delta) ==
    paint_and_update_textures(texs, framebuffer,
                              IF pending # None THEN tessellate(pending[1].list)
                              ELSE <<>>,
                              delta)

\* `if let Some(shapes) = self.shapes.take() { tessellate, paint } else { log }`
paint_pending(pending, texs, framebuffer, delta) ==
    IF pending # None
    THEN paint_and_update_textures(texs, framebuffer, tessellate(pending[1].list),
                                   delta)
    ELSE [textures |-> texs, steps |-> <<>>,
          log |-> <<LogError("Failed to draw egui")>>, panic |-> "none"]

draw(framebuffer) ==
    /\ ~halted
    /\ screen_height' = framebuffer_size(framebuffer)[2]
    /\ egui_input' = [egui_input EXCEPT !.screen_rect =
                        Some([min |-> <<0, 0>>, size |-> framebuffer_size(framebuffer)])]
    /\ LET taken == Option_take(shapes)
           r == paint_pending(taken.value, textures, framebuffer, textures_delta)
       IN /\ shapes' = taken.left
          /\ textures' = r.textures
          /\ halted' = (r.panic # "none")
          /\ textures_delta' = delta_after_draw(taken.value, r.panic, textures_delta)
          /\ last' = Called("draw", framebuffer, r.log, r.steps, r.panic, None)
          /\ history' =
               [history EXCEPT
                  !.painted = IF taken.value # None
                              THEN [@ EXCEPT ![taken.value[1].frame] = Min(@ + 1, 2)]
                              ELSE @,
                  !.applied = @ \o AppliedBy(r.steps, textures_delta),
                  !.paint_height = IF taken.value # None
                                   THEN [@ EXCEPT ![taken.value[1].frame] =
                                            Some(ToF32(framebuffer[2]))]
                                   ELSE @]
    /\ UNCHANGED <<pointer_position, egui_ctx>>

\* An event whose position mouse_to_pos computed.
IsPointerEvent(e) == e.type \in {"PointerMoved", "PointerButton"}

handle_event(event, keys) ==
    /\ ~halted
    /\ LET r == translate_event(event, keys, screen_height, pointer_position)
       IN /\ Len(egui_input.events) + Len(r.events) <= MaxEvents
          /\ egui_input' = [egui_input EXCEPT !.events = @ \o r.events]
          /\ pointer_position' = r.pointer
          /\ history' = [history EXCEPT
                           !.pending_heights =
                              IF \E k \in 1..Len(r.events) : IsPointerEvent(r.events[k])
                              THEN @ \cup {screen_height} ELSE @]
    /\ last' = Called("handle_event", [event |-> event, keys |-> keys],
                      <<>>, <<>>, "none", None)
    /\ UNCHANGED <<shapes, textures_delta, screen_height, textures, egui_ctx, halted>>

(***************************************************************************)
(* What the embedding application and the UI library supply.               *)
(***************************************************************************)
ClipRect0 == [min |-> <<0, 0>>, max |-> <<2 * Scale, 2 * Scale>>]

Vertex0 == [pos |-> <<Scale, Scale>>, uv |-> <<0, 0>>, color |-> <<255, 255, 255, 255>>]

MeshOf(id) == [texture_id |-> id, indices |-> <<0, 0, 0>>, vertices |-> <<Vertex0>>]

MeshShape(id) == [clip_rect |-> ClipRect0, shape |-> [type |-> "Mesh", mesh |-> MeshOf(id)]]

CallbackShape(payload) ==
    [clip_rect |-> ClipRect0,
     shape |-> [type |-> "Callback",
                callback |-> [rect |-> ClipRect0, payload |-> payload]]]

CallbackFn(f) == [type |-> "CallbackFn", f |-> f]

ForeignCallback == [type |-> "Other", f |-> "g"]

ImageA == [kind |-> "Color", size |-> <<1, 1>>, pixels |-> <<<<10, 20, 30, 255>>>>]

ImageB == [kind |-> "Font", size |-> <<1, 1>>, pixels |-> <<<<1, 2>>>>]

FullDelta(image, filter) ==
    [image |-> image, options |-> [magnification |-> filter], pos |-> None]

PartialDelta(image, filter, pos) ==
    [image |-> image, options |-> [magnification |-> filter], pos |-> Some(pos)]

\* The frame lifecycle: every kind of primitive and of instruction, one
\* framebuffer, one host event (the pointer and the keys are in SpecInput).
LifecycleShapes ==
    SeqsUpTo({MeshShape(Managed(0)), MeshShape(User(0)), CallbackShape(CallbackFn("f"))},
             MaxPrims)

LifecycleSets ==
    SeqsUpTo({[id |-> Managed(0), delta |-> FullDelta(ImageA, "Nearest")],
              [id |-> Managed(0), delta |-> PartialDelta(ImageB, "Linear", <<0, 0>>)]},
             MaxSet)

LifecycleFrees == SeqsUpTo({Managed(0)}, MaxFree)

LifecycleOutputs ==
    [shapes : LifecycleShapes, set : LifecycleSets, free : LifecycleFrees]

LifecycleFramebuffers == {<<4, 3>>}

LifecycleEvents == {[type |-> "Wheel", delta |-> 1]}

LifecycleKeys == {{}}

Next ==
    \/ \E keys \in LifecycleKeys : begin_frame(keys)
    \/ \E ui \in LifecycleOutputs : end_frame(ui)
    \/ \E framebuffer \in LifecycleFramebuffers : draw(framebuffer)
    \/ \E event \in LifecycleEvents, keys \in LifecycleKeys : handle_event(event, keys)

Spec == Init /\ [][Next]_vars

(***************************************************************************)
(* The painter on its own: the public functions of Painter called in any   *)
(* order on the cache Painter::new creates.                                *)
(***************************************************************************)
call_set_texture(tex_id, delta) ==
    /\ ~halted
    /\ LET r == set_texture(textures, tex_id, delta)
       IN /\ textures' = r.textures
          /\ halted' = (r.panic # "none")
          /\ last' = Called("set_texture",
                            [id |-> tex_id, delta |-> delta,
                             present |-> tex_id \in DOMAIN textures],
                            r.log, <<>>, r.panic, None)
    /\ UNCHANGED <<egui_input, shapes, textures_delta, screen_height,
                   pointer_position, egui_ctx, history>>

call_free_texture(tex_id) ==
    /\ ~halted
    /\ textures' = free_texture(textures, tex_id)
    /\ last' = Called("free_texture",
                      [id |-> tex_id, removed |-> tex_id \in DOMAIN textures],
                      <<>>, <<>>, "none", None)
    /\ UNCHANGED <<egui_input, shapes, textures_delta, screen_height,
                   pointer_position, egui_ctx, halted, history>>

call_paint(framebuffer, primitives) ==
    /\ ~halted
    /\ LET r == paint([textures |-> textures, steps |-> <<>>, log |-> <<>>,
                       panic |-> "none"],
                      framebuffer, primitives)
       IN /\ textures' = r.textures
          /\ halted' = (r.panic # "none")
          /\ last' = Called("paint",
                            [framebuffer |-> framebuffer, primitives |-> primitives],
                            r.log, r.steps, r.panic, None)
    /\ UNCHANGED <<egui_input, shapes, textures_delta, screen_height,
                   pointer_position, egui_ctx, history>>

call_paint_and_update_textures(framebuffer, primitives, delta) ==
    /\ ~halted
    /\ LET r == paint_and_update_textures(textures, framebuffer, primitives, delta)
       IN /\ textures' = r.textures
          /\ halted' = (r.panic # "none")
          /\ last' = Called("paint_and_update_textures",
                            [framebuffer |-> framebuffer, primitives |-> primitives,
                             delta |-> delta],
                            r.log, r.steps, r.panic, None)
    /\ UNCHANGED <<egui_input, shapes, textures_delta, screen_height,
                   pointer_position, egui_ctx, history>>

Image2x2 ==
    [kind |-> "Color", size |-> <<2, 2>>,
     pixels |-> <<<<1, 0, 0, 255>>, <<2, 0, 0, 255>>, <<3, 0, 0, 255>>, <<4, 0, 0, 255>>>>]

ImageFont1x2 == [kind |-> "Font", size |-> <<1, 2>>, pixels |-> <<<<1, 4>>, <<3, 4>>>>]

\* An image whose pixel count is not width x height.
ImageShort == [kind |-> "Color", size |-> <<2, 1>>, pixels |-> <<<<9, 9, 9, 255>>>>]

PainterIds == {Managed(0), Managed(1), User(0)}

PainterDeltas ==
    {FullDelta(ImageA, "Nearest"), FullDelta(ImageB, "Linear"),
     FullDelta(Image2x2, "Nearest"), FullDelta(ImageFont1x2, "Linear"),
     FullDelta(ImageShort, "Nearest"),
     PartialDelta(ImageA, "Linear", <<1, 0>>), PartialDelta(ImageB, "Nearest", <<0, 0>>),
     PartialDelta(ImageShort, "Linear", <<0, 0>>)}

PainterFramebuffers == {<<4, 3>>}

PainterPrimitives ==
    SeqsUpTo({tessellate(<<shape>>)[1] :
                 shape \in {MeshShape(Managed(0)), MeshShape(Managed(1)),
                            MeshShape(User(0)), CallbackShape(CallbackFn("f")),
                            CallbackShape(ForeignCallback)}},
             MaxPrims)

\* What paint_and_update_textures is handed: up to MaxInstr creates/updates.
PainterJobs ==
    [primitives : SeqsUpTo({tessellate(<<MeshShape(Managed(0))>>)[1]}, MaxPrims),
     delta : [set : SeqsUpTo({[id |-> Managed(0), delta |-> FullDelta(ImageA, "Nearest")],
                              [id |-> Managed(0),
                               delta |-> PartialDelta(ImageB, "Linear", <<0, 0>>)],
                              [id |-> Managed(1),
                               delta |-> PartialDelta(ImageB, "Linear", <<0, 0>>)]},
                             MaxInstr),
              free : SeqsUpTo({[id |-> Managed(0)]}, MaxFree)]]

NextPainter ==
    \/ \E tex_id \in PainterIds, delta \in PainterDeltas :
          call_set_texture(tex_id, delta)
    \/ \E tex_id \in PainterIds : call_free_texture(tex_id)
    \/ \E framebuffer \in PainterFramebuffers, primitives \in PainterPrimitives :
          call_paint(framebuffer, primitives)
    \/ \E framebuffer \in PainterFramebuffers, job \in PainterJobs :
          call_paint_and_update_textures(framebuffer, job.primitives, job.delta)

SpecPainter == Init /\ [][NextPainter]_vars

(***************************************************************************)
(* The keyboard and the wheel in the frame lifecycle: key and wheel events *)
(* with and without modifier keys held, in frames that paint nothing.      *)
(***************************************************************************)
InputEvents ==
    {[type |-> "Wheel", delta |-> 1], [type |-> "Focus"]} \cup
    {[type |-> "KeyPress", key |-> key] : key \in {"A", "Digit1", "Enter", "F1"}} \cup
    {[type |-> "KeyRelease", key |-> key] : key \in {"A", "F1"}}

InputKeys == {{}, {"ShiftLeft"}, {"AltLeft", "ControlLeft"}}

InputFramebuffers == {<<4, 3>>}

InputOutputs == {[shapes |-> <<>>, set |-> <<>>, free |-> <<>>]}

NextInput ==
    \/ \E event \in InputEvents, keys \in InputKeys : handle_event(event, keys)
    \/ \E keys \in InputKeys : begin_frame(keys)
    \/ \E ui \in InputOutputs : end_frame(ui)
    \/ \E framebuffer \in InputFramebuffers : draw(framebuffer)

SpecInput == Init /\ [][NextInput]_vars

(***************************************************************************)
(* The pointer in the frame lifecycle: cursor moves and mouse buttons, a   *)
(* framebuffer that is resized between draws, and frames that create a     *)
(* texture and paint one mesh with it. At most MaxPointerEvents events are *)
(* queued between two begin_frame calls.                                   *)
(***************************************************************************)
MaxPointerEvents == 1

PointerEvents ==
    {[type |-> "MousePress", button |-> button] : button \in {"Left", "Middle", "Right"}} \cup
    {[type |-> "MouseRelease", button |-> button] : button \in {"Left", "Middle", "Right"}} \cup
    {[type |-> "CursorMove", position |-> position] :
        position \in {<<Scale, Scale>>, <<1, 2 * Scale + 1>>}} \cup
    {[type |-> "Wheel", delta |-> 1]}

PointerFramebuffers == {<<4, 3>>, <<4, 2>>}

PointerOutputs ==
    {[shapes |-> <<MeshShape(Managed(0))>>,
      set |-> <<[id |-> Managed(0), delta |-> FullDelta(ImageA, "Nearest")]>>,
      free |-> <<>>]}

NextPointer ==
    \/ \E event \in PointerEvents :
          /\ Len(egui_input.events) < MaxPointerEvents
          /\ handle_event(event, {})
    \/ begin_frame({})
    \/ \E ui \in PointerOutputs : end_frame(ui)
    \/ \E framebuffer \in PointerFramebuffers : draw(framebuffer)

SpecPointer == Init /\ [][NextPointer]_vars

(***************************************************************************)
(* The clip viewport: one mesh painted under every clip rectangle whose    *)
(* corners lie on the grid of positions from just outside the top-left     *)
(* corner to MaxClip pixels and a fraction, corners in either order, on a  *)
(* framebuffer low enough for a corner to lie below it.                    *)
(***************************************************************************)
MaxClip == 1

ClipCoords == (0 - 1)..(MaxClip * Scale + 1)

ClipRects == [min : ClipCoords \X ClipCoords, max : ClipCoords \X ClipCoords]

ClipFramebuffers == {<<4, 1>>}

ClipMesh(clip_rect) ==
    tessellate(<<[clip_rect |-> clip_rect,
                  shape |-> [type |-> "Mesh", mesh |-> MeshOf(Managed(0))]]>>)

NextClip ==
    \/ call_set_texture(Managed(0), FullDelta(ImageA, "Nearest"))
    \/ \E framebuffer \in ClipFramebuffers, clip_rect \in ClipRects :
          call_paint(framebuffer, ClipMesh(clip_rect))

SpecClip == Init /\ [][NextClip]_vars

(***************************************************************************)
(* The claims.                                                             *)
(***************************************************************************)
NoShapesLog == <<LogError("Failed to draw egui")>>

\* The last call was a draw that found a pending shape list.
DrewShapes == last.op = "draw" /\ last.log # NoShapesLog

PaintSteps(steps) == {k \in 1..Len(steps) : steps[k].phase = "paint"}

\* C1: every shape list an end_frame produced has been handed to the
\* painter by at most one draw, and a draw leaves no shape list pending, so
\* a second draw without a new end_frame paints nothing.
C1_ShapesPaintedAtMostOnce ==
    /\ \A f \in DOMAIN history.painted : history.painted[f] <= 1
    /\ last.op = "draw" => shapes = None
    /\ last.op = "draw" /\ last.log = NoShapesLog => last.steps = <<>>

\* C1 witness: a shape list has been painted and the draw after it, with
\* no end_frame in between, found nothing to paint.
C1_Witness ==
    /\ last.op = "draw"
    /\ last.log = NoShapesLog
    /\ egui_ctx.frame_nr >= 1
    /\ history.painted[egui_ctx.frame_nr] = 1

\* C2: a draw with no shape list pending logs the error and paints nothing:
\* no step is taken, the texture cache, the pending texture delta, the
\* pending events and modifiers and the pointer are unchanged, nothing
\* halts; screen_height and the next frame's screen rectangle are set from
\* the framebuffer.
C2_DrawWithoutShapes ==
    [][(last'.op = "draw" /\ shapes = None) =>
          /\ last'.log = NoShapesLog
          /\ last'.steps = <<>>
          /\ shapes' = None
          /\ textures' = textures
          /\ textures_delta' = textures_delta
          /\ egui_input'.events = egui_input.events
          /\ egui_input'.modifiers = egui_input.modifiers
          /\ pointer_position' = pointer_position
          /\ history' = history
          /\ ~halted'
          /\ screen_height' = ToF32(last'.args[2])
          /\ egui_input'.screen_rect =
                Some([min |-> <<0, 0>>,
                      size |-> <<ToF32(last'.args[1]), ToF32(last'.args[2])>>])]_vars

\* C2 witness: a draw found no shape list while the cache held a texture
\* and an event was pending.
C2_Witness ==
    /\ last.op = "draw"
    /\ last.log = NoShapesLog
    /\ textures # <<>>
    /\ egui_input.events # <<>>

PhaseRank(phase) ==
    CASE phase = "set" -> 1
      [] phase = "paint" -> 2
      [] phase = "free" -> 3

StepsOf(steps, phase) == {k \in 1..Len(steps) : steps[k].phase = phase}

IndexesOf(steps, phase) == {steps[k].index : k \in StepsOf(steps, phase)}

\* The full creates for id among the instructions set.
FullCreates(set, id) ==
    {j \in 1..Len(set) : set[j].id = id /\ set[j].delta.pos = None}

LastOf(S) == CHOOSE j \in S : \A i \in S : i <= j

\* C3: in a draw with a pending shape list the steps run creates/updates,
\* then primitives, then frees: a primitive is painted only once every
\* queued create/update has been applied and a free is applied only once
\* every primitive has been painted. A mesh whose texture the cache holds
\* once the creates are applied is painted with exactly that texture, also
\* when the same delta frees it, and every freed identifier is absent when
\* the draw returns.
C3_CreatesThenPaintThenFrees ==
    [][(last'.op = "draw" /\ shapes # None) =>
          LET steps == last'.steps
              set == textures_delta.set
              free == textures_delta.free
              prims == shapes[1].list
          IN /\ \A i, j \in 1..Len(steps) :
                   i < j => PhaseRank(steps[i].phase) <= PhaseRank(steps[j].phase)
             /\ StepsOf(steps, "paint") # {} =>
                   IndexesOf(steps, "set") = 1..Len(set)
             /\ StepsOf(steps, "free") # {} =>
                   IndexesOf(steps, "paint") = 1..Len(prims)
             /\ \A k \in StepsOf(steps, "paint") :
                   LET shape == prims[steps[k].index].shape
                       id == shape.mesh.texture_id
                       fulls == FullCreates(set, id)
                   IN (shape.type = "Mesh" /\ id[1] = "Managed"
                       /\ (id \in DOMAIN textures \/ fulls # {})) =>
                         /\ steps[k].call # None
                         /\ steps[k].call[1].texture_id = id
                         /\ steps[k].call[1].u_texture =
                              IF fulls # {}
                              THEN NewTexture(
                                     set[LastOf(fulls)].delta.image,
                                     set[LastOf(fulls)].delta.options.magnification)
                              ELSE textures[id]
             /\ ~halted' =>
                   /\ IndexesOf(steps, "free") = 1..Len(free)
                   /\ \A j \in 1..Len(free) : free[j].id \notin DOMAIN textures']_vars

\* C3 witness: a draw has created a texture, painted a mesh with it and
\* then freed it.
C3_Witness ==
    /\ last.op = "draw"
    /\ ~halted
    /\ \E i, j, k \in 1..Len(last.steps) :
          /\ i < j /\ j < k
          /\ last.steps[i].phase = "set" /\ last.steps[i].outcome = "ok"
          /\ last.steps[j].phase = "paint"
          /\ last.steps[j].call # None
          /\ last.steps[j].call[1].kind = "draw"
          /\ last.steps[k].phase = "free"
          /\ last.steps[j].call[1].texture_id \notin DOMAIN textures

\* The stage of the frame lifecycle the bridge is in.
Stage ==
    IF egui_ctx.frame_open THEN "FrameOpen"
    ELSE IF shapes # None THEN "ShapesReady" ELSE "Idle"

\* C4 as claimed: begin_frame takes effect only in Idle, end_frame only in
\* FrameOpen, and a draw paints only in ShapesReady.
C4_StageOrderEnforced ==
    [][/\ last'.op = "begin_frame" => Stage = "Idle"
       /\ last'.op = "end_frame" => Stage = "FrameOpen"
       /\ (last'.op = "draw" /\ last'.steps # <<>>) => Stage = "ShapesReady"]_vars

\* C4 as amended: begin_frame and end_frame take effect in whatever stage
\* they are called (begin_frame hands the pending input over and opens a
\* frame, end_frame stores the new shape list as the pending one); only
\* draw depends on the stage: it takes a step only when a shape list is
\* pending and leaves none pending.
C4_OnlyDrawDependsOnStage ==
    [][/\ last'.op = "begin_frame" =>
             /\ egui_ctx'.frame_open
             /\ last'.input # None
             /\ last'.input[1].events = egui_input.events
             /\ egui_input'.events = <<>>
       /\ last'.op = "end_frame" =>
             /\ ~egui_ctx'.frame_open
             /\ egui_ctx'.frame_nr = egui_ctx.frame_nr + 1
             /\ shapes' # None
             /\ shapes'[1].frame = egui_ctx'.frame_nr
             /\ Len(textures_delta'.set) >= Len(textures_delta.set)
       /\ last'.op = "draw" =>
             /\ shapes' = None
             /\ shapes = None => last'.steps = <<>>
             /\ shapes # None =>
                   history'.painted[shapes[1].frame] =
                      history.painted[shapes[1].frame] + 1]_vars

\* C4 witness: a begin_frame has taken effect, handing an event over, while
\* the shape list of the frame before it was still pending.
C4_Witness ==
    /\ last.op = "begin_frame"
    /\ last.input[1].events # <<>>
    /\ egui_ctx.frame_open
    /\ shapes # None

Range(seq) == {seq[k] : k \in 1..Len(seq)}

Count(seq, x) == Cardinality({k \in 1..Len(seq) : seq[k] = x})

\* C5: no instruction is applied twice, an instruction leaves the pending
\* delta only by being applied, and once a draw has found a pending shape
\* list every instruction emitted so far has been applied exactly once and
\* the pending delta is empty.
C5_InstructionsAppliedExactlyOnce ==
    /\ \A src \in Range(history.emitted) : Count(history.applied, src) <= 1
    /\ \A src \in Range(history.emitted) :
          Count(history.applied, src) = 0 => src \in Range(Sources(textures_delta))
    /\ DrewShapes =>
          /\ \A src \in Range(history.emitted) : Count(history.applied, src) = 1
          /\ textures_delta = [set |-> <<>>, free |-> <<>>]

\* What holds of C5 in every state: no instruction is applied twice and an
\* instruction not yet applied is still pending; a draw that found a shape
\* list and returned has applied them all and left the delta empty.
C5_AppliedOnceWhenDrawReturns ==
    /\ \A src \in Range(history.emitted) : Count(history.applied, src) <= 1
    /\ \A src \in Range(history.emitted) :
          Count(history.applied, src) = 0 => src \in Range(Sources(textures_delta))
    /\ (DrewShapes /\ ~halted) =>
          /\ \A src \in Range(history.emitted) : Count(history.applied, src) = 1
          /\ textures_delta = [set |-> <<>>, free |-> <<>>]

EndFrameLog == <<LogError("Egui contents have not been drawn")>>

\* C6: an end_frame called while a shape list is pending logs the error,
\* does not halt and stores its own shape list as the pending one; an
\* end_frame with none pending logs nothing. A draw paints the list of the
\* newest end_frame only, so a list that was overwritten is never painted.
C6_EndFrameOverwritesPending ==
    [][/\ (last'.op = "end_frame" /\ shapes # None) =>
             /\ last'.log = EndFrameLog
             /\ ~halted'
             /\ shapes' = Some([frame |-> egui_ctx.frame_nr + 1,
                                list |-> last'.args.shapes])
             /\ shapes'[1].frame # shapes[1].frame
       /\ (last'.op = "end_frame" /\ shapes = None) => last'.log = <<>>
       /\ \A f \in DOMAIN history.painted :
             history'.painted[f] # history.painted[f] =>
                /\ last'.op = "draw"
                /\ f = egui_ctx.frame_nr]_vars

\* C6 witness: the first shape list was overwritten by the second
\* end_frame; a draw has painted the second and the first was never painted.
C6_Witness ==
    /\ last.op = "draw"
    /\ history.painted = <<0, 1>>

IsMesh(clipped) == clipped.type = "Mesh"

\* C7: paint halts on no primitive list: it handles every primitive, in
\* order; a mesh whose texture identifier, Managed or User, is absent from
\* the cache is skipped with an error and issues no draw call, and every
\* other primitive is still painted.
C7_MissingTextureSkipped ==
    last.op = "paint" =>
       LET prims == last.args.primitives
           steps == last.steps
       IN /\ ~halted
          /\ Len(steps) = Len(prims)
          /\ \A k \in 1..Len(steps) :
                /\ steps[k].phase = "paint"
                /\ steps[k].index = k
                /\ (IsMesh(prims[k]) /\ prims[k].mesh[1].texture_id \notin DOMAIN textures)
                      => (steps[k].outcome = "skipped" /\ steps[k].call = None)
                /\ (IsMesh(prims[k]) /\ prims[k].mesh[1].texture_id \in DOMAIN textures)
                      => (steps[k].outcome = "ok" /\ steps[k].call # None)

\* What holds of C7: a mesh whose Managed identifier is absent is skipped
\* with the error and without a draw call, and the primitive after it is
\* handled next.
C7_ManagedMissingSkipped ==
    last.op = "paint" =>
       LET prims == last.args.primitives
           steps == last.steps
       IN \A k \in 1..Len(steps) :
             (/\ IsMesh(prims[k])
              /\ prims[k].mesh[1].texture_id[1] = "Managed"
              /\ prims[k].mesh[1].texture_id \notin DOMAIN textures) =>
                /\ steps[k].outcome = "skipped"
                /\ steps[k].call = None
                /\ k < Len(prims) => Len(steps) > k

\* The texel of a w x h image that lands on texel p of a texture of height
\* height when the image is written at pos (both with row 0 on top).
PatchPixel(image, pos, height, p) ==
    image.pixels[(p[1] - pos[1]) + ((height - 1 - p[2]) - pos[2]) * image.size[1] + 1]

InPatch(image, pos, height, p) ==
    /\ p[1] \in pos[1]..(pos[1] + image.size[1] - 1)
    /\ (height - 1 - p[2]) \in pos[2]..(pos[2] + image.size[2] - 1)

\* C8: set_texture with a partial delta for an identifier the cache holds
\* returns normally: the filter is the delta's, the texels of the
\* sub-rectangle are the delta's pixels, the other texels and the other
\* entries are unchanged.
C8_PartialUpdateWritesSubRectangle ==
    [][(/\ last'.op = "set_texture"
        /\ last'.args.delta.pos # None
        /\ last'.args.id \in DOMAIN textures
        /\ SizeMatches(last'.args.delta.image)) =>
          LET id == last'.args.id
              delta == last'.args.delta
              old == textures[id]
          IN /\ ~halted'
             /\ last'.panic = "none"
             /\ DOMAIN textures' = DOMAIN textures
             /\ \A other \in DOMAIN textures \ {id} : textures'[other] = textures[other]
             /\ textures'[id].filter = delta.options.magnification
             /\ textures'[id].size = old.size
             /\ \A p \in DOMAIN old.texels :
                   textures'[id].texels[p] =
                      IF InPatch(delta.image, delta.pos[1], old.size[2], p)
                      THEN IF delta.image.kind = "Color"
                           THEN ColorTexel(PatchPixel(delta.image, delta.pos[1],
                                                      old.size[2], p))
                           ELSE FontTexel(PatchPixel(delta.image, delta.pos[1],
                                                     old.size[2], p))
                      ELSE old.texels[p]]_vars

\* C9: free_texture leaves the identifier absent and every other entry as
\* it was, whether or not the identifier was present; it logs nothing and
\* does not halt. So a full create followed by a free leaves the identifier
\* absent, and freeing an absent identifier changes nothing.
C9_FreeRemovesOnlyThatEntry ==
    [][last'.op = "free_texture" =>
          /\ DOMAIN textures' = (DOMAIN textures) \ {last'.args.id}
          /\ \A other \in DOMAIN textures' : textures'[other] = textures[other]
          /\ last'.args.id \notin DOMAIN textures => textures' = textures
          /\ last'.log = <<>>
          /\ ~halted']_vars

\* C9 witness: an identifier that a full create had put in the cache has
\* been freed, and another entry is still there.
C9_Witness ==
    /\ last.op = "free_texture"
    /\ last.args.removed
    /\ last.args.id \notin DOMAIN textures
    /\ textures # <<>>

\* The identifier of instruction k of set is absent when its turn comes:
\* the cache did not hold it and no earlier instruction created it.
AbsentAt(texs, set, k) ==
    /\ set[k].id \notin DOMAIN texs
    /\ \A j \in 1..(k - 1) : ~(set[j].id = set[k].id /\ set[j].delta.pos = None)

\* C10: set_texture with a partial delta for an identifier the cache does
\* not hold leaves the cache as it was, logs the error and does not halt;
\* in paint_and_update_textures such an update is skipped and the next
\* instruction, or the first primitive, or the first free, is handled next.
C10_PartialUpdateOfUnknownSkipped ==
    [][/\ (/\ last'.op = "set_texture"
           /\ last'.args.delta.pos # None
           /\ last'.args.id \notin DOMAIN textures) =>
             /\ textures' = textures
             /\ last'.log = <<LogError("Failed to find egui texture")>>
             /\ last'.panic = "none"
             /\ ~halted'
       /\ last'.op = "paint_and_update_textures" =>
             LET set == last'.args.delta.set
                 steps == last'.steps
                 rest == Len(set) + Len(last'.args.primitives)
                         + Len(last'.args.delta.free)
             IN \A k \in StepsOf(steps, "set") :
                   (set[k].delta.pos # None /\ AbsentAt(textures, set, k)) =>
                      /\ steps[k].outcome = "skipped"
                      /\ (\A j \in 1..Len(set) :
                             ~(set[j].id = set[k].id /\ set[j].delta.pos = None))
                            => set[k].id \notin DOMAIN textures'
                      /\ k < rest => Len(steps) > k
                      /\ last'.panic = "none" => Len(steps) = rest]_vars

\* C10 witness: a draw skipped the partial update of an unknown identifier
\* and went on to create a texture and to paint a mesh with it.
C10_Witness ==
    /\ last.op = "paint_and_update_textures"
    /\ ~halted
    /\ Len(last.steps) >= 3
    /\ last.steps[1].phase = "set" /\ last.steps[1].outcome = "skipped"
    /\ last.steps[2].phase = "set" /\ last.steps[2].outcome = "ok"
    /\ last.steps[3].phase = "paint" /\ last.steps[3].call # None

\* The identifiers a full create has put in the cache and no free has
\* removed since, after the first n steps of a draw that began with ids.
RECURSIVE LiveAfter(_, _, _, _)
LiveAfter(ids, steps, delta, n) ==
    IF n = 0 THEN ids
    ELSE LET before == LiveAfter(ids, steps, delta, n - 1)
             step == steps[n]
         IN CASE step.phase = "set" /\ step.outcome = "ok"
                                    /\ delta.set[step.index].delta.pos = None ->
                   before \cup {delta.set[step.index].id}
              [] step.phase = "free" -> before \ {delta.free[step.index].id}
              [] OTHER -> before

\* C11: the cache starts empty; the identifiers it holds are those a full
\* create has been applied for with no free applied since: a full create
\* adds its identifier and replaces the entry the identifier had, a free
\* removes its identifier, and nothing else adds or removes an entry.
C11_CacheHoldsCreatedNotFreed ==
    /\ textures = <<>>
    /\ [][/\ last'.op = "set_texture" =>
               IF last'.args.delta.pos = None /\ last'.panic = "none"
               THEN /\ DOMAIN textures' = (DOMAIN textures) \cup {last'.args.id}
                    /\ textures'[last'.args.id] =
                          NewTexture(last'.args.delta.image,
                                     last'.args.delta.options.magnification)
               ELSE DOMAIN textures' = DOMAIN textures
          /\ last'.op = "free_texture" =>
               DOMAIN textures' = (DOMAIN textures) \ {last'.args.id}
          /\ last'.op = "paint_and_update_textures" =>
               DOMAIN textures' = LiveAfter(DOMAIN textures, last'.steps,
                                            last'.args.delta, Len(last'.steps))
          /\ last'.op \notin {"set_texture", "free_texture",
                              "paint_and_update_textures"} =>
               DOMAIN textures' = DOMAIN textures]_vars

\* C11 witness: a full create has replaced the entry its identifier had,
\* while the cache holds another identifier as well.
C11_Witness ==
    /\ last.op = "set_texture"
    /\ last.args.delta.pos = None
    /\ last.args.present
    /\ last.panic = "none"
    /\ Cardinality(DOMAIN textures) >= 2

\* The backend calls the steps of a paint issued, in the order of issue.
Issued(steps) ==
    LET HasCall(step) == step.call # None
        with == SelectSeq(steps, HasCall)
    IN [k \in 1..Len(with) |-> with[k].call[1]]

\* The primitives of a list that are not skipped on the cache texs: the
\* meshes whose texture the cache holds and the callbacks of the expected
\* type.
NotSkipped(texs, primitives) ==
    LET Paintable(clipped) ==
            IF IsMesh(clipped) THEN clipped.mesh[1].texture_id \in DOMAIN texs
            ELSE clipped.callback[1].payload.type = "CallbackFn"
    IN SelectSeq(primitives, Paintable)

\* The call is the one draw call of the mesh, or the one invocation of the
\* callback, of the primitive.
CallOf(texs, call, clipped) ==
    IF IsMesh(clipped)
    THEN /\ call.kind = "draw"
         /\ call.texture_id = clipped.mesh[1].texture_id
         /\ call.u_texture = texs[clipped.mesh[1].texture_id]
         /\ Len(call.vertices) = Len(clipped.mesh[1].indices)
    ELSE /\ call.kind = "callback"
         /\ call.f = clipped.callback[1].payload.f
         /\ call.viewport = clipped.callback[1].rect

\* C12: the draw calls and callback invocations paint issues are those of
\* the primitives of its list that are not skipped, one each and in the
\* order of the list.
C12_CallsFollowPrimitiveOrder ==
    last.op = "paint" =>
       LET calls == Issued(last.steps)
           expected == NotSkipped(textures, last.args.primitives)
       IN /\ Len(calls) = Len(expected)
          /\ \A k \in 1..Len(calls) : CallOf(textures, calls[k], expected[k])

\* What holds of C12: the calls paint issues are, in order, those of the
\* primitives it reached, which are all of them unless a mesh with a
\* user-provided texture identifier stopped it.
C12_CallsFollowReachedPrimitives ==
    last.op = "paint" =>
       LET calls == Issued(last.steps)
           reached == SubSeq(last.args.primitives, 1, Len(last.steps))
           stopped == \E k \in 1..Len(reached) :
                         IsMesh(reached[k]) /\ reached[k].mesh[1].texture_id[1] = "User"
           expected == NotSkipped(textures,
                                  IF stopped
                                  THEN SubSeq(reached, 1, Len(reached) - 1)
                                  ELSE reached)
       IN /\ Len(calls) = Len(expected)
          /\ \A k \in 1..Len(calls) : CallOf(textures, calls[k], expected[k])
          /\ ~stopped => Len(last.steps) = Len(last.args.primitives)

IsCallback(clipped) == clipped.type = "Callback"

Unsupported(clipped) ==
    IsCallback(clipped) /\ clipped.callback[1].payload.type # "CallbackFn"

UnsupportedLog == LogWarn("Unsupported render callback")

\* C13: paint skips a callback primitive whose payload is not a CallbackFn:
\* it logs the warning, invokes nothing, does not halt and goes on to the
\* next primitive; a supported callback is invoked; and a list of callback
\* primitives is handled to its end with the texture cache and the frame
\* state as they were.
C13_UnsupportedCallbackSkipped ==
    [][last'.op = "paint" =>
          LET prims == last'.args.primitives
              steps == last'.steps
          IN /\ \A k \in 1..Len(steps) :
                   /\ Unsupported(prims[k]) =>
                         /\ steps[k].outcome = "skipped"
                         /\ steps[k].call = None
                         /\ k < Len(prims) => Len(steps) > k
                   /\ (IsCallback(prims[k]) /\ ~Unsupported(prims[k])) =>
                         /\ steps[k].outcome = "ok"
                         /\ steps[k].call # None
                         /\ steps[k].call[1].f = prims[k].callback[1].payload.f
             /\ Len(SelectSeq(last'.log, LAMBDA l : l = UnsupportedLog))
                   = Cardinality({k \in 1..Len(steps) : Unsupported(prims[k])})
             /\ (\A k \in 1..Len(prims) : IsCallback(prims[k])) =>
                   /\ Len(steps) = Len(prims)
                   /\ last'.panic = "none"
                   /\ ~halted'
             /\ textures' = textures
             /\ UNCHANGED <<egui_input, shapes, textures_delta, screen_height,
                            pointer_position, egui_ctx>>]_vars

\* C13 witness: paint skipped an unsupported callback and then issued the
\* draw call of a mesh.
C13_Witness ==
    /\ last.op = "paint"
    /\ ~halted
    /\ Len(last.steps) = 2
    /\ Unsupported(last.args.primitives[1])
    /\ last.steps[1].outcome = "skipped"
    /\ IsMesh(last.args.primitives[2])
    /\ last.steps[2].call # None

IsPrefix(a, b) == Len(a) <= Len(b) /\ SubSeq(b, 1, Len(a)) = a

\* C14: begin_frame hands the UI library the whole pending event queue,
\* in arrival order, and leaves the queue empty; handle_event only appends
\* to the end of the queue; end_frame and draw leave the queue as it is. So
\* every event is handed over once, by the first begin_frame after it
\* arrived, and an event that arrives after a begin_frame waits for the
\* next one.
C14_EventsDeliveredOnceInOrder ==
    [][/\ last'.op = "begin_frame" =>
             /\ last'.input # None
             /\ last'.input[1].events = egui_input.events
             /\ egui_input'.events = <<>>
       /\ last'.op = "handle_event" =>
             /\ IsPrefix(egui_input.events, egui_input'.events)
             /\ egui_input'.events = egui_input.events \o
                   translate_event(last'.args.event, last'.args.keys,
                                   screen_height, pointer_position).events
       /\ last'.op \in {"end_frame", "draw"} =>
             /\ egui_input'.events = egui_input.events
             /\ last'.input = None]_vars

\* C14 witness: after a frame was drawn, a begin_frame handed over two
\* events in the order they arrived, a key event and then a scroll, and
\* emptied the queue.
C14_Witness ==
    /\ last.op = "begin_frame"
    /\ history.painted = <<1>>
    /\ Len(last.input[1].events) = 2
    /\ last.input[1].events[1].type = "Key"
    /\ last.input[1].events[2].type = "Scroll"
    /\ egui_input.events = <<>>

\* C15: the height every pointer event consumed by a frame was translated
\* with is the height the painter used when it painted that frame.
C15_SameHeightForEventAndPaint ==
    \A f \in DOMAIN history.paint_height :
       history.paint_height[f] # None =>
          \A h \in history.heights[f] : h = history.paint_height[f][1]

\* What holds of C15: with one height, translating a host position to UI
\* space and the result back to backend space gives the host position.
C15_RoundTripWithOneHeight ==
    [][(last'.op = "handle_event" /\ last'.args.event.type = "CursorMove") =>
          LET moved == egui_input'.events[Len(egui_input'.events)]
          IN /\ moved.type = "PointerMoved"
             /\ moved.pos = mouse_to_pos(screen_height, last'.args.event.position)
             /\ pos_to_vec(moved.pos, screen_height) = last'.args.event.position]_vars

ButtonOf(button) ==
    CASE button = "Left" -> "Primary"
      [] button = "Middle" -> "Middle"
      [] button = "Right" -> "Secondary"

\* C16: the pointer position starts at zero and only a cursor-move event
\* changes it, to the position the event carries; a mouse press or release
\* appends exactly one pointer-button event, with the button mapped
\* Left->Primary, Middle->Middle, Right->Secondary and the position being
\* the translation of the pointer position, and leaves the pointer position
\* as it was.
C16_ButtonAtLastCursorPosition ==
    /\ pointer_position = <<0, 0>>
    /\ [][/\ pointer_position' # pointer_position =>
                /\ last'.op = "handle_event"
                /\ last'.args.event.type = "CursorMove"
          /\ (last'.op = "handle_event" /\ last'.args.event.type = "CursorMove") =>
                pointer_position' = last'.args.event.position
          /\ (/\ last'.op = "handle_event"
              /\ last'.args.event.type \in {"MousePress", "MouseRelease"}) =>
                LET n == Len(egui_input.events)
                IN /\ Len(egui_input'.events) = n + 1
                   /\ SubSeq(egui_input'.events, 1, n) = egui_input.events
                   /\ egui_input'.events[n + 1].type = "PointerButton"
                   /\ egui_input'.events[n + 1].button =
                         ButtonOf(last'.args.event.button)
                   /\ egui_input'.events[n + 1].pressed =
                         (last'.args.event.type = "MousePress")
                   /\ egui_input'.events[n + 1].pos =
                         <<pointer_position[1], screen_height - pointer_position[2]>>
                   /\ pointer_position' = pointer_position]_vars

\* C16 witness: after a cursor move and a draw, a press of the right
\* button appended a Secondary button event at the moved position.
C16_Witness ==
    /\ last.op = "handle_event"
    /\ last.args.event = [type |-> "MousePress", button |-> "Right"]
    /\ pointer_position = <<1, 2 * Scale + 1>>
    /\ screen_height = 3 * Scale
    /\ Len(egui_input.events) = 1
    /\ egui_input.events[1].button = "Secondary"
    /\ egui_input.events[1].pos = <<1, Scale - 1>>

\* The events a call appended to the pending queue.
Appended == SubSeq(egui_input'.events, Len(egui_input.events) + 1,
                   Len(egui_input'.events))

\* The UI key of the host keys pressed here that have one, and the text
\* of those that are printable, without and with shift.
UiKey == "A" :> "A" @@ "Digit1" :> "Num1" @@ "Enter" :> "Enter"

KeyText == "A" :> <<"a", "A">> @@ "Digit1" :> <<"1", "1">>

\* C17: a press of a mapped key appends a key-down event with the current
\* modifiers and repeat = false, followed for a letter or a digit by one
\* text event with its character, upper-cased exactly when shift is held;
\* a release of a mapped key appends only a key-up event; a press or a
\* release of an unmapped key appends nothing.
C17_KeyPressAppendsKeyAndText ==
    [][(last'.op = "handle_event"
        /\ last'.args.event.type \in {"KeyPress", "KeyRelease"}) =>
          LET host == last'.args.event.key
              keys == last'.args.keys
              pressed == last'.args.event.type = "KeyPress"
              shift == "ShiftLeft" \in keys
              down == [type |-> "Key", key |-> UiKey[host],
                       modifiers |-> [alt |-> "AltLeft" \in keys,
                                      ctrl |-> "ControlLeft" \in keys,
                                      shift |-> shift],
                       pressed |-> pressed, repeat |-> FALSE]
          IN /\ IsPrefix(egui_input.events, egui_input'.events)
             /\ IF host \notin DOMAIN UiKey THEN Appended = <<>>
                ELSE IF pressed /\ host \in DOMAIN KeyText
                THEN Appended = <<down,
                                  [type |-> "Text",
                                   text |-> KeyText[host][IF shift THEN 2 ELSE 1]]>>
                ELSE Appended = <<down>>]_vars

\* C17 witness: a press of A with shift held appended the key-down event
\* of A and the text "A".
C17_Witness ==
    /\ last.op = "handle_event"
    /\ last.args = [event |-> [type |-> "KeyPress", key |-> "A"],
                    keys |-> {"ShiftLeft"}]
    /\ Len(egui_input.events) = 2
    /\ egui_input.events[1].type = "Key"
    /\ egui_input.events[1].modifiers.shift
    /\ egui_input.events[2] = [type |-> "Text", text |-> "A"]

\* C18: a full create of a w x h image stores a texture of size w x h
\* whose texel <<x, y>> comes from the source pixel of column x and row
\* h - 1 - y: a color pixel with its four channels as they are, a font
\* pixel as white with the pixel as alpha.
C18_FullCreateFlipsRows ==
    [][(/\ last'.op = "set_texture"
        /\ last'.args.delta.pos = None
        /\ last'.panic = "none") =>
          LET image == last'.args.delta.image
              w == image.size[1]
              h == image.size[2]
              texture == textures'[last'.args.id]
          IN /\ last'.args.id \in DOMAIN textures'
             /\ texture.size = <<w, h>>
             /\ DOMAIN texture.texels = (0..(w - 1)) \X (0..(h - 1))
             /\ \A x \in 0..(w - 1), y \in 0..(h - 1) :
                   LET source == image.pixels[(h - 1 - y) * w + x + 1]
                   IN texture.texels[<<x, y>>] =
                         IF image.kind = "Color"
                         THEN <<<<source[1], 255>>, <<source[2], 255>>,
                                <<source[3], 255>>, <<source[4], 255>>>>
                         ELSE <<<<1, 1>>, <<1, 1>>, <<1, 1>>, source>>]_vars

\* C18 witness: the full create of the 2 x 2 image has put the source's
\* last row in row 0 of the texture and its first row in row 1.
C18_Witness ==
    /\ last.op = "set_texture"
    /\ last.args.delta = FullDelta(Image2x2, "Nearest")
    /\ last.panic = "none"
    /\ textures[last.args.id].texels[<<0, 0>>][1] = <<3, 255>>
    /\ textures[last.args.id].texels[<<1, 0>>][1] = <<4, 255>>
    /\ textures[last.args.id].texels[<<0, 1>>][1] = <<1, 255>>

\* C19: only draw changes screen_height; every draw, with or without a
\* pending shape list, sets it to the height of the framebuffer and records
\* the framebuffer's size as the pending screen rectangle, handing nothing
\* to the UI library; begin_frame hands the pending screen rectangle over
\* and leaves none pending; handle_event and end_frame leave it as it is.
\* So the rectangle of a draw reaches the UI library with the next
\* begin_frame, and a begin_frame with no draw since the one before hands
\* over no rectangle.
C19_ScreenSizeRecordedByDraw ==
    [][/\ screen_height' # screen_height => last'.op = "draw"
       /\ last'.op = "draw" =>
             /\ screen_height' = last'.args[2] * Scale
             /\ egui_input'.screen_rect =
                   Some([min |-> <<0, 0>>,
                         size |-> <<last'.args[1] * Scale, last'.args[2] * Scale>>])
             /\ last'.input = None
       /\ last'.op = "begin_frame" =>
             /\ last'.input[1].screen_rect = egui_input.screen_rect
             /\ egui_input'.screen_rect = None
       /\ last'.op \in {"handle_event", "end_frame"} =>
             egui_input'.screen_rect = egui_input.screen_rect]_vars

\* C19 witness: after a frame was painted on the 4 x 3 framebuffer and a
\* draw with no shape list found it resized to 4 x 2, a begin_frame handed
\* over the 4 x 2 rectangle.
C19_Witness ==
    /\ last.op = "begin_frame"
    /\ history.paint_height = <<Some(3 * Scale)>>
    /\ screen_height = 2 * Scale
    /\ last.input[1].screen_rect =
          Some([min |-> <<0, 0>>, size |-> <<4 * Scale, 2 * Scale>>])
    /\ egui_input.screen_rect = None

\* C20: set_texture with an image whose pixel count is not width x height
\* halts on the assertion, whatever the delta and the cache, and leaves the
\* cache as it was.
C20_SizeMismatchAssertsFirst ==
    [][(last'.op = "set_texture" /\ ~SizeMatches(last'.args.delta.image)) =>
          /\ last'.panic = "assert"
          /\ halted'
          /\ textures' = textures]_vars

\* What holds of C20: a full create with such an image halts on the
\* assertion with the cache as it was; a partial update of a texture the
\* cache holds halts on the assertion too, with the same entries.
C20_FullCreateAssertsFirst ==
    [][(last'.op = "set_texture" /\ ~SizeMatches(last'.args.delta.image)) =>
          /\ last'.args.delta.pos = None =>
                (last'.panic = "assert" /\ halted' /\ textures' = textures)
          /\ (last'.args.delta.pos # None /\ last'.args.present) =>
                (last'.panic = "assert" /\ halted'
                 /\ DOMAIN textures' = DOMAIN textures)]_vars

\* The cache after the instructions of a pending delta were applied frame
\* by frame, from frame f to frame to: the creates/updates of a frame in
\* order, then its frees, then the next frame.
RECURSIVE ApplyPerFrame(_, _, _, _)
ApplyPerFrame(st, delta, f, to) ==
    IF f > to THEN st
    ELSE LET OfFrame(instruction) == instruction.src[1] = f
             sets == set_from(st, SelectSeq(delta.set, OfFrame), 1)
             frees == free_from(sets, SelectSeq(delta.free, OfFrame), 1)
         IN ApplyPerFrame(frees, delta, f + 1, to)

PerFrame(texs, delta) ==
    ApplyPerFrame([textures |-> texs, steps |-> <<>>, log |-> <<>>, panic |-> "none"],
                  delta, 1, MaxFrames + 1)

\* An identifier freed by one frame of the delta is created by a later one.
FreedThenCreated(delta) ==
    \E i \in 1..Len(delta.free), j \in 1..Len(delta.set) :
       /\ delta.free[i].id = delta.set[j].id
       /\ delta.free[i].src[1] < delta.set[j].src[1]
       /\ delta.set[j].delta.pos = None

\* C21: a draw that applies the merged deltas of several frames and
\* returns leaves the cache as applying each frame's delta on its own, in
\* frame order, would have left it.
C21_MergedDeltaAsPerFrame ==
    [][(last'.op = "draw" /\ shapes # None /\ last'.panic = "none") =>
          /\ PerFrame(textures, textures_delta).panic = "none"
          /\ textures' = PerFrame(textures, textures_delta).textures]_vars

\* What holds of C21: the two agree unless an identifier freed by one
\* frame is created again by a later frame of the same pending delta.
C21_MergedAsPerFrameUnlessRecreated ==
    [][(/\ last'.op = "draw" /\ shapes # None /\ last'.panic = "none"
        /\ ~FreedThenCreated(textures_delta)) =>
          /\ PerFrame(textures, textures_delta).panic = "none"
          /\ textures' = PerFrame(textures, textures_delta).textures]_vars

\* The clip rectangle of the one mesh a paint was given, translated to
\* backend space with the height of the framebuffer, in position units.
TranslatedClip ==
    LET clip_rect == last.args.primitives[1].clip_rect
        height == last.args.framebuffer[2] * Scale
    IN [min |-> <<Min(clip_rect.min[1], clip_rect.max[1]),
                  Min(height - clip_rect.min[2], height - clip_rect.max[2])>>,
        max |-> <<Max(clip_rect.min[1], clip_rect.max[1]),
                  Max(height - clip_rect.min[2], height - clip_rect.max[2])>>]

\* The last call was a paint that issued the draw call of its one mesh.
PaintedOne ==
    /\ last.op = "paint"
    /\ Len(last.steps) = 1
    /\ last.steps[1].call # None

\* Each vertex of the draw call is the translated vertex of the mesh moved
\* by the bottom-left corner of the viewport.
ShiftedByViewport ==
    LET call == last.steps[1].call[1]
        mesh == last.args.primitives[1].mesh[1]
        height == last.args.framebuffer[2] * Scale
    IN \A k \in 1..Len(mesh.indices) :
          LET vertex == mesh.vertices[mesh.indices[k] + 1]
          IN call.vertices[k].a_pos =
                <<vertex.pos[1] - call.viewport.min[1] * Scale,
                  (height - vertex.pos[2]) - call.viewport.min[2] * Scale>>

\* C22: the integer viewport of a mesh's draw call contains the mesh's
\* translated clip rectangle, and each vertex is shifted by the viewport's
\* bottom-left corner.
C22_ViewportContainsClipRect ==
    PaintedOne =>
       LET viewport == last.steps[1].call[1].viewport
       IN /\ viewport.min[1] * Scale <= TranslatedClip.min[1]
          /\ viewport.min[2] * Scale <= TranslatedClip.min[2]
          /\ viewport.max[1] * Scale >= TranslatedClip.max[1]
          /\ viewport.max[2] * Scale >= TranslatedClip.max[2]
          /\ ShiftedByViewport

\* What holds of C22: each bound of the viewport is the whole pixel at or
\* below the bound of the translated rectangle, and 0 for a negative one;
\* so a lower bound is rounded up only when it is negative, an upper bound
\* is kept only when it is a whole pixel, and the vertices are shifted by
\* the viewport's bottom-left corner.
C22_ViewportTruncatesBounds ==
    PaintedOne =>
       LET viewport == last.steps[1].call[1].viewport
           Whole(v) == IF v <= 0 THEN 0 ELSE (v - (v % Scale)) \div Scale
       IN /\ viewport.min = <<Whole(TranslatedClip.min[1]), Whole(TranslatedClip.min[2])>>
          /\ viewport.max = <<Whole(TranslatedClip.max[1]), Whole(TranslatedClip.max[2])>>
          /\ ShiftedByViewport

====
